---- MODULE Spec2Model ----
(***************************************************************************)
(* A model of examples/gamepad.py: the interactive calibration             *)
(* (wait_for_axis_movement, wait_for_button_press, calibrate), the mapping *)
(* file (load_or_calibrate) and the runtime loop (elrs_loop).              *)
(*                                                                         *)
(* Axis values are Python floats in [-1, 1]; they are modelled as exact    *)
(* fixed-point numbers, an integer k standing for k / Scale.  Python       *)
(* lists are sequences (list index i is sequence index i + 1), the         *)
(* joystick's axes are a function on 0 .. numaxes-1.                       *)
(***************************************************************************)
EXTENDS Integers, Sequences, FiniteSets, TLC

VARIABLES
    pc,                \* position of the single thread of control
    force_calibration, \* args.calibrate
    file,              \* MAPPING_FILE: whether it exists, and its text
    axes,              \* joystick axes as of the last pump: axis -> value
    buttons,           \* joystick buttons as of the last pump: button -> pressed
    queue,             \* pygame's event queue (events not yet retrieved)
    baseline,          \* calibrate: the baseline snapshot
    used_axes,         \* calibrate: set of claimed axis indices
    axis_mapping,      \* calibrate: list of {index, inverted}
    cfg,               \* calibrate: what wait_for_axis_movement returned
    taken_buttons,     \* calibrate: set of claimed buttons
    button_a,          \* calibrate: first detected button (None before)
    button_b,          \* calibrate: second detected button (None before)
    events,            \* wait_for_button_press: what pygame.event.get() returned last
    mapping,           \* the mapping load_or_calibrate works on and returns
    cal_calls,         \* number of calls of calibrate in this run so far
    axis_indices,      \* elrs_loop: [cfg["index"] for cfg in axes_cfg]
    inv_flags,         \* elrs_loop: [cfg["inverted"] for cfg in axes_cfg]
    channels           \* the frame last passed to elrs.set_channels

cal_vars  == <<baseline, used_axes, axis_mapping, cfg, taken_buttons,
               button_a, button_b, events>>
loop_vars == <<axis_indices, inv_flags, channels>>
joy_vars  == <<axes, buttons, queue>>
vars == <<pc, force_calibration, file, axes, buttons, queue, baseline,
          used_axes, axis_mapping, cfg, taken_buttons, button_a, button_b,
          events, mapping, cal_calls, axis_indices, inv_flags, channels>>

----------------------------------------------------------------------------
(* Program constants *)

NUM_CHANNELS == 16
CAL_CHANNELS == 4
\* the neutral value of a channel, [1024] * NUM_CHANNELS
CH_MID == 1024
\* the largest value of a channel
CH_MAX == 2047

\* Python's None, for a local that is not bound yet.
None == -1

Abs(x) == IF x < 0 THEN -x ELSE x
Max(a, b) == IF a >= b THEN a ELSE b
Min(a, b) == IF a <= b THEN a ELSE b

----------------------------------------------------------------------------
(* Bounds of the model *)

\* One unit of the fixed-point representation of a float is 1 / Scale.
Scale == 40
\* number of buttons of the controller that is calibrated
NumButtons == 2
\* most events that wait in the queue or arrive with one pump
MaxBatch == 2

\* joystick.get_numaxes() of the controller: as many axes as are calibrated
AxisIds == 0 .. (CAL_CHANNELS - 1)
Rest == [i \in AxisIds |-> 0]
\* an axis is sampled at -1.0, 0.0, 0.6 or 0.9
AxisVals == {-Scale, 0, (6 * Scale) \div 10, (9 * Scale) \div 10}
OffRest(s) == {i \in DOMAIN s : s[i] # 0}
\* the samples with at most n axes away from rest
Held(n) == {s \in [AxisIds -> AxisVals] : Cardinality(OffRest(s)) <= n}
\* what one pump can find during calibration: one control moved
Samples == Held(1)
\* how the controller can be held when the program starts
StartSamples == Held(2)

ButtonIds == 0 .. (NumButtons - 1)
Released == [b \in ButtonIds |-> FALSE]

----------------------------------------------------------------------------
(* Events of pygame's queue *)

Event(t, b) == [type |-> t, button |-> b]
\* the events the controller posts: presses and releases of its buttons
Events == {Event(t, b) : t \in {"JOYBUTTONDOWN", "JOYBUTTONUP"}, b \in ButtonIds}
RECURSIVE SeqsUpTo(_, _)
SeqsUpTo(S, n) ==
    IF n = 0 THEN {<<>>}
    ELSE LET shorter == SeqsUpTo(S, n - 1)
         IN  shorter \cup {Append(q, e) : q \in {r \in shorter : Len(r) = n - 1}, e \in S}
Batches == SeqsUpTo(Events, MaxBatch)
\* one event, or none
PressBatches == SeqsUpTo(Events, 1)

----------------------------------------------------------------------------
(* wait_for_axis_movement, lines 31-53 *)

\* the differences with the claimed axes left in
DiffsAll(sample, base, used) ==
    [i \in DOMAIN sample |-> sample[i] - base[i]]

\* diffs, lines 44-47
Diffs(sample, base, used) ==
    [i \in DOMAIN sample |-> IF i \in used THEN 0 ELSE sample[i] - base[i]]

\* the first index whose signed difference is maximal
ArgMaxSigned(diffs) ==
    CHOOSE i \in DOMAIN diffs :
        /\ \A j \in DOMAIN diffs : diffs[j] <= diffs[i]
        /\ \A j \in DOMAIN diffs : j < i => diffs[j] < diffs[i]

\* max(enumerate(diffs), key=lambda x: abs(x[1])), line 48: the first index
\* whose absolute difference is maximal
ArgMaxAbs(diffs) ==
    CHOOSE i \in DOMAIN diffs :
        /\ \A j \in DOMAIN diffs : Abs(diffs[j]) <= Abs(diffs[i])
        /\ \A j \in DOMAIN diffs : j < i => Abs(diffs[j]) < Abs(diffs[i])

\* abs(delta) > thresh
DetectedStrict(delta) == 10 * Abs(delta) > 6 * Scale

\* a threshold of 0.0
DetectedAtZero(delta) == 10 * Abs(delta) >= 0

\* abs(delta) >= thresh with thresh = 0.6, lines 34 and 49
Detected(delta) == 10 * Abs(delta) >= 6 * Scale

\* the sign of the value instead of the sign of the difference
InvertedBySign(sample, base, idx) == sample[idx] < 0

\* inverted = (joystick.get_axis(idx) < baseline[idx]), line 50
Inverted(sample, base, idx) == sample[idx] < base[idx]

\* the movement measured from rest instead of from the baseline passed in
AxisMovementFromRest(sample, base, used) ==
    LET diffs == Diffs(sample, Rest, used)
        idx   == ArgMaxAbs(diffs)
    IN  IF Detected(diffs[idx])
        THEN [hit |-> TRUE, index |-> idx,
              inverted |-> Inverted(sample, Rest, idx)]
        ELSE [hit |-> FALSE, index |-> idx, inverted |-> FALSE]

\* one iteration of the while loop, lines 41-53, on the sample the pump
\* brought: hit = FALSE when the loop goes round again
AxisMovement(sample, base, used) ==
    LET diffs == Diffs(sample, base, used)
        idx   == ArgMaxAbs(diffs)
    IN  IF Detected(diffs[idx])
        THEN [hit |-> TRUE, index |-> idx,
              inverted |-> Inverted(sample, base, idx)]
        ELSE [hit |-> FALSE, index |-> idx, inverted |-> FALSE]

----------------------------------------------------------------------------
(* wait_for_button_press, lines 56-68 *)

\* the first JOYBUTTONDOWN event, taken or not
RECURSIVE FirstPressIgnoringTaken(_, _, _)
FirstPressIgnoringTaken(batch, taken, i) ==
    IF i > Len(batch) THEN 0
    ELSE IF batch[i].type = "JOYBUTTONDOWN"
         THEN i
         ELSE FirstPressIgnoringTaken(batch, taken, i + 1)

\* lines 63-68: index in the batch of the first JOYBUTTONDOWN event whose
\* button is not in already_taken, 0 when there is none
RECURSIVE FirstPress(_, _, _)
FirstPress(batch, taken, i) ==
    IF i > Len(batch) THEN 0
    ELSE IF batch[i].type = "JOYBUTTONDOWN" /\ batch[i].button \notin taken
         THEN i
         ELSE FirstPress(batch, taken, i + 1)

----------------------------------------------------------------------------
(* calibrate, lines 71-108 *)

NoCfg == [index |-> None, inverted |-> FALSE]
NoMapping == [axes |-> <<>>, buttons |-> [btn_a |-> None, btn_b |-> None]]

\* the two buttons exchanged
MakeMappingSwapped(axis_list, a, b) ==
    [axes |-> axis_list, buttons |-> [btn_a |-> b, btn_b |-> a]]

\* lines 103-106
MakeMapping(axis_list, a, b) ==
    [axes |-> axis_list, buttons |-> [btn_a |-> a, btn_b |-> b]]

\* the claimed axes kept from the call before
CalBeginKeepsClaims ==
    /\ pc = "calibrate"
    /\ axis_mapping' = <<>>
    /\ used_axes' = used_axes
    /\ baseline' = axes
    /\ cal_calls' = cal_calls + 1
    /\ pc' = "axis"
    /\ UNCHANGED <<force_calibration, file, joy_vars, cfg, taken_buttons,
                   button_a, button_b, events, mapping, loop_vars>>

\* lines 72-74: the locals, and the first baseline, read without a pump
CalBegin ==
    /\ pc = "calibrate"
    /\ axis_mapping' = <<>>
    /\ used_axes' = {}
    /\ baseline' = axes
    /\ cal_calls' = cal_calls + 1
    /\ pc' = "axis"
    /\ UNCHANGED <<force_calibration, file, joy_vars, cfg, taken_buttons,
                   button_a, button_b, events, mapping, loop_vars>>

\* one iteration of wait_for_axis_movement's loop, lines 41-53: the pump
\* brings the joystick to `sample` and appends `evs` to the event queue;
\* on a detection the function returns cfg to calibrate
AxisPoll(sample, evs) ==
    /\ pc = "axis"
    /\ Len(queue) + Len(evs) <= MaxBatch
    /\ axes' = sample
    /\ queue' = queue \o evs
    /\ LET r == AxisMovement(sample, baseline, used_axes)
       IN  IF r.hit
           THEN /\ cfg' = [index |-> r.index, inverted |-> r.inverted]
                /\ pc' = "axis_ret"
           ELSE UNCHANGED <<cfg, pc>>
    /\ UNCHANGED <<force_calibration, file, buttons, baseline, used_axes,
                   axis_mapping, taken_buttons, button_a, button_b, events,
                   mapping, cal_calls, loop_vars>>

\* the baseline of line 74 kept for every channel
AxisReturnStaleBaseline ==
    /\ pc = "axis_ret"
    /\ axis_mapping' = Append(axis_mapping, cfg)
    /\ used_axes' = used_axes \cup {cfg.index}
    /\ baseline' = baseline
    /\ IF Len(axis_mapping) + 1 = CAL_CHANNELS
       THEN pc' = "btn_a" /\ taken_buttons' = {}
       ELSE pc' = "axis" /\ UNCHANGED taken_buttons
    /\ UNCHANGED <<force_calibration, file, joy_vars, cfg, button_a, button_b,
                   events, mapping, cal_calls, loop_vars>>

\* lines 84-86 after a detection, then the next round of the for loop or,
\* after the last one, line 89
AxisReturn ==
    /\ pc = "axis_ret"
    /\ axis_mapping' = Append(axis_mapping, cfg)
    /\ used_axes' = used_axes \cup {cfg.index}
    /\ baseline' = axes
    /\ IF Len(axis_mapping) + 1 = CAL_CHANNELS
       THEN pc' = "btn_a" /\ taken_buttons' = {}
       ELSE pc' = "axis" /\ UNCHANGED taken_buttons
    /\ UNCHANGED <<force_calibration, file, joy_vars, cfg, button_a, button_b,
                   events, mapping, cal_calls, loop_vars>>

\* one round of wait_for_button_press's loop for button A, lines 62-68, and
\* line 95 when it returns: pygame.event.get() pumps and empties the queue;
\* the events behind the accepted one are dropped with the batch
ButtonPollA(sample, evs) ==
    /\ pc = "btn_a"
    /\ Len(queue) + Len(evs) <= MaxBatch
    /\ axes' = sample
    /\ queue' = <<>>
    /\ events' = queue \o evs
    /\ LET batch == queue \o evs
           i     == FirstPress(batch, taken_buttons, 1)
       IN  IF i > 0
           THEN /\ button_a' = batch[i].button
                /\ taken_buttons' = taken_buttons \cup {batch[i].button}
                /\ pc' = "btn_b"
           ELSE UNCHANGED <<button_a, taken_buttons, pc>>
    /\ UNCHANGED <<force_calibration, file, buttons, baseline, used_axes,
                   axis_mapping, cfg, button_b, mapping, cal_calls, loop_vars>>

\* one round of the loop for button B, lines 62-68, and lines 103-108 when
\* it returns
ButtonPollB(sample, evs) ==
    /\ pc = "btn_b"
    /\ Len(queue) + Len(evs) <= MaxBatch
    /\ axes' = sample
    /\ queue' = <<>>
    /\ events' = queue \o evs
    /\ LET batch == queue \o evs
           i     == FirstPress(batch, taken_buttons, 1)
       IN  IF i > 0
           THEN /\ button_b' = batch[i].button
                /\ mapping' = MakeMapping(axis_mapping, button_a, batch[i].button)
                /\ pc' = "cal_ret"
           ELSE UNCHANGED <<button_b, mapping, pc>>
    /\ UNCHANGED <<force_calibration, file, buttons, baseline, used_axes,
                   axis_mapping, cfg, taken_buttons, button_a, cal_calls,
                   loop_vars>>

----------------------------------------------------------------------------
(* The mapping file: json.dump and json.load, lines 117 and 125.  The text *)
(* of the file is a sequence of JSON tokens.                               *)

Tok(k, s, n) == [k |-> k, s |-> s, n |-> n]
P(s) == Tok("punct", s, 0)
Str(s) == Tok("string", s, 0)
Num(n) == Tok("number", "", n)
Lit(b) == Tok("literal", IF b THEN "true" ELSE "false", 0)
\* text that is no JSON token
Junk == Tok("junk", "?", 0)

\* the inverted flag written as false whatever it is
DumpBindingNoFlag(b) ==
    <<P("{"), Str("index"), P(":"), Num(b.index), P(","),
      Str("inverted"), P(":"), Lit(FALSE), P("}")>>

\* json.dump of one {"index": int, "inverted": bool}
DumpBinding(b) ==
    <<P("{"), Str("index"), P(":"), Num(b.index), P(","),
      Str("inverted"), P(":"), Lit(b.inverted), P("}")>>

RECURSIVE DumpBindings(_, _)
DumpBindings(list, i) ==
    IF i > Len(list) THEN <<>>
    ELSE (IF i > 1 THEN <<P(",")>> ELSE <<>>)
         \o DumpBinding(list[i]) \o DumpBindings(list, i + 1)

\* json.dump(mapping, fp, indent=2), line 125, of the dict that calibrate
\* builds (white space is not modelled)
JsonDump(m) ==
    <<P("{"), Str("axes"), P(":"), P("[")>> \o DumpBindings(m.axes, 1)
    \o <<P("]"), P(","), Str("buttons"), P(":"), P("{"),
         Str("btn_a"), P(":"), Num(m.buttons.btn_a), P(","),
         Str("btn_b"), P(":"), Num(m.buttons.btn_b), P("}"), P("}")>>

ParseFail == [ok |-> FALSE, val |-> 0, next |-> 0]
ParseOk(v, n) == [ok |-> TRUE, val |-> v, next |-> n]
EmptyDict == [k \in {} |-> 0]

\* the dict of the members read: a Python dict keeps the last value of a key
DictOf(keys, vals) ==
    [k \in {keys[j] : j \in DOMAIN keys} |->
        vals[CHOOSE j \in DOMAIN keys :
                /\ keys[j] = k
                /\ \A l \in DOMAIN keys : keys[l] = k => l <= j]]

\* json.load, line 117: a recursive-descent parse of a JSON value that
\* starts at token i; a dict becomes a function on its keys, a list a
\* sequence
RECURSIVE ParseValue(_, _), ParseItems(_, _, _), ParseMembers(_, _, _, _)
ParseValue(t, i) ==
    IF i > Len(t) THEN ParseFail
    ELSE IF t[i].k = "number" THEN ParseOk(t[i].n, i + 1)
    ELSE IF t[i].k = "literal" THEN ParseOk(t[i].s = "true", i + 1)
    ELSE IF t[i] = P("[")
         THEN IF i + 1 <= Len(t) /\ t[i + 1] = P("]")
              THEN ParseOk(<<>>, i + 2)
              ELSE ParseItems(t, i + 1, <<>>)
    ELSE IF t[i] = P("{")
         THEN IF i + 1 <= Len(t) /\ t[i + 1] = P("}")
              THEN ParseOk(EmptyDict, i + 2)
              ELSE ParseMembers(t, i + 1, <<>>, <<>>)
    ELSE ParseFail

ParseItems(t, i, acc) ==
    LET r == ParseValue(t, i)
    IN  IF ~r.ok \/ r.next > Len(t) THEN ParseFail
        ELSE IF t[r.next] = P(",")
             THEN ParseItems(t, r.next + 1, Append(acc, r.val))
        ELSE IF t[r.next] = P("]")
             THEN ParseOk(Append(acc, r.val), r.next + 1)
        ELSE ParseFail

ParseMembers(t, i, keys, vals) ==
    IF i + 1 > Len(t) \/ t[i].k # "string" \/ t[i + 1] # P(":") THEN ParseFail
    ELSE LET r == ParseValue(t, i + 2)
         IN  IF ~r.ok \/ r.next > Len(t) THEN ParseFail
             ELSE IF t[r.next] = P(",")
                  THEN ParseMembers(t, r.next + 1, Append(keys, t[i].s),
                                    Append(vals, r.val))
             ELSE IF t[r.next] = P("}")
                  THEN ParseOk(DictOf(Append(keys, t[i].s), Append(vals, r.val)),
                               r.next + 1)
             ELSE ParseFail

\* a reader that supplies the closing brace a text lacks
JsonLoadClosing(text) ==
    LET r == ParseValue(text, 1)
        c == ParseValue(text \o <<P("}")>>, 1)
    IN  IF r.ok /\ r.next = Len(text) + 1 THEN r
        ELSE IF c.ok /\ c.next = Len(text) + 2 THEN c
        ELSE ParseFail

\* json.load(fp): the whole text must be one JSON value
JsonLoad(text) ==
    LET r == ParseValue(text, 1)
    IN  IF r.ok /\ r.next = Len(text) + 1 THEN r ELSE ParseFail

NoFile == [exists |-> FALSE, text |-> <<>>]
FileOf(text) == [exists |-> TRUE, text |-> text]

----------------------------------------------------------------------------
(* load_or_calibrate, lines 113-127 *)

\* the stored file is read whenever it exists, force_calibration or not
LoadIgnoringForce(read_ok) ==
    /\ pc = "main"
    /\ IF file.exists
       THEN LET r == JsonLoad(file.text)
            IN  IF read_ok /\ r.ok
                THEN mapping' = r.val /\ pc' = "returned"
                ELSE pc' = "calibrate" /\ UNCHANGED mapping
       ELSE pc' = "calibrate" /\ UNCHANGED mapping
    /\ UNCHANGED <<force_calibration, file, joy_vars, cal_vars, cal_calls,
                   loop_vars>>

\* lines 114-121: read_ok = FALSE when opening or reading the file raises
LoadOrCalibrate(read_ok) ==
    /\ pc = "main"
    /\ IF ~force_calibration /\ file.exists
       THEN LET r == JsonLoad(file.text)
            IN  IF read_ok /\ r.ok
                THEN mapping' = r.val /\ pc' = "returned"
                ELSE pc' = "calibrate" /\ UNCHANGED mapping
       ELSE pc' = "calibrate" /\ UNCHANGED mapping
    /\ UNCHANGED <<force_calibration, file, joy_vars, cal_vars, cal_calls,
                   loop_vars>>

\* MAPPING_FILE.open("w"), line 124: the file is created or emptied, or
\* opening it raises and the exception leaves load_or_calibrate
SaveOpen(open_ok) ==
    /\ pc = "cal_ret"
    /\ IF open_ok
       THEN file' = FileOf(<<>>) /\ pc' = "dump"
       ELSE pc' = "crashed" /\ UNCHANGED file
    /\ UNCHANGED <<force_calibration, joy_vars, cal_vars, mapping, cal_calls,
                   loop_vars>>

Prefix(seq, n) == [i \in 1 .. n |-> seq[i]]

\* json.dump and the end of the with block, lines 125-127: n tokens reach
\* the file; a write that raises leaves the tokens written before it
SaveDump(n) ==
    /\ pc = "dump"
    /\ n <= Len(JsonDump(mapping))
    /\ file' = FileOf(Prefix(JsonDump(mapping), n))
    /\ pc' = IF n = Len(JsonDump(mapping)) THEN "returned" ELSE "crashed"
    /\ UNCHANGED <<force_calibration, joy_vars, cal_vars, mapping, cal_calls,
                   loop_vars>>

----------------------------------------------------------------------------
(* elrs_loop, lines 129-162 *)

TruncDiv(a, b) == IF a >= 0 THEN a \div b ELSE -((-a) \div b)

\* round((value + 1.0) * 1024), halves to the even neighbour
ScaledRounded(value) ==
    LET a == (value + Scale) * CH_MID
        q == a \div Scale
        r == a % Scale
    IN  IF 2 * r < Scale THEN q
        ELSE IF 2 * r > Scale THEN q + 1
        ELSE IF q % 2 = 0 THEN q ELSE q + 1

\* int((value + 1.0) * 1024), line 144: int() truncates toward zero
Scaled(value) == TruncDiv((value + Scale) * CH_MID, Scale)

\* the conversion without the clamp
AxisToChannelUnclamped(value) == TruncDiv((value + Scale) * CH_MID, Scale)

\* max and min exchanged in the clamp
AxisToChannelSwapped(value) == Min(0, Max(CH_MAX, Scaled(value)))

\* axis_to_channel, lines 142-144
axis_to_channel(value) == Max(0, Min(CH_MAX, Scaled(value)))

\* the raw value with the inverted flag ignored
RawOfNotNegated(sample, idx, inv) == sample[idx]

\* lines 152-154
RawOf(sample, idx, inv) == IF inv THEN -sample[idx] ELSE sample[idx]

\* lines 149-159: the frame of one cycle; the button slots are written
\* after the axis slots
Frame(indices, flags, btn_cfg, sample, pressed) ==
    [k \in 0 .. (NUM_CHANNELS - 1) |->
        IF k = 4 THEN (IF pressed[btn_cfg.btn_a] THEN CH_MAX ELSE 0)
        ELSE IF k = 5 THEN (IF pressed[btn_cfg.btn_b] THEN CH_MAX ELSE 0)
        ELSE IF k < Len(indices)
             THEN axis_to_channel(RawOf(sample, indices[k + 1], flags[k + 1]))
             ELSE CH_MID]

\* lines 133-140 raise KeyError on a dict without the keys they read
SetupOk(m) ==
    /\ "axes" \in DOMAIN m
    /\ "buttons" \in DOMAIN m
    /\ \A i \in 1 .. Len(m.axes) : {"index", "inverted"} \subseteq DOMAIN m.axes[i]

\* lines 133-140
LoopSetup ==
    /\ pc = "returned"
    /\ IF SetupOk(mapping)
       THEN /\ inv_flags' = [i \in 1 .. Len(mapping.axes) |-> mapping.axes[i].inverted]
            /\ axis_indices' = [i \in 1 .. Len(mapping.axes) |-> mapping.axes[i].index]
            /\ pc' = "loop"
       ELSE pc' = "crashed" /\ UNCHANGED <<inv_flags, axis_indices>>
    /\ UNCHANGED <<force_calibration, file, joy_vars, cal_vars, mapping,
                   cal_calls, channels>>

\* get_axis and get_button raise pygame.error on an index the controller
\* does not have, channels[ch] raises IndexError, btn_cfg[...] KeyError
CycleOk(sample, pressed) ==
    /\ Len(axis_indices) <= NUM_CHANNELS
    /\ \A i \in 1 .. Len(axis_indices) : axis_indices[i] \in DOMAIN sample
    /\ {"btn_a", "btn_b"} \subseteq DOMAIN mapping.buttons
    /\ mapping.buttons.btn_a \in DOMAIN pressed
    /\ mapping.buttons.btn_b \in DOMAIN pressed

\* one cycle of the while loop, lines 146-162: the pump brings the
\* joystick to `sample` and `pressed`
LoopCycle(sample, pressed) ==
    /\ pc = "loop"
    /\ axes' = sample
    /\ buttons' = pressed
    /\ IF CycleOk(sample, pressed)
       THEN /\ channels' = Frame(axis_indices, inv_flags, mapping.buttons,
                                 sample, pressed)
            /\ pc' = "loop"
       ELSE pc' = "crashed" /\ UNCHANGED channels
    /\ UNCHANGED <<force_calibration, file, queue, cal_vars, mapping,
                   cal_calls, axis_indices, inv_flags>>

----------------------------------------------------------------------------
(* The specifications *)

\* the locals of calibrate and of elrs_loop before they are bound
Unbound ==
    /\ baseline = <<>>
    /\ used_axes = {}
    /\ axis_mapping = <<>>
    /\ cfg = NoCfg
    /\ taken_buttons = {}
    /\ button_a = None
    /\ button_b = None
    /\ events = <<>>
    /\ cal_calls = 0
    /\ axis_indices = <<>>
    /\ inv_flags = <<>>
    /\ channels = <<>>

Binding(i, inv) == [index |-> i, inverted |-> inv]

(* calibrate alone, with the controller held in any start position *)

InitCal ==
    /\ pc = "calibrate"
    /\ force_calibration = TRUE
    /\ file = NoFile
    /\ axes \in StartSamples
    /\ buttons = Released
    /\ queue = <<>>
    /\ mapping = NoMapping
    /\ Unbound

NextCal ==
    \/ CalBegin
    \/ \E sample \in Samples : AxisPoll(sample, <<>>)
    \/ AxisReturn
    \/ \E evs \in PressBatches : ButtonPollA(axes, evs)
    \/ \E evs \in PressBatches : ButtonPollB(axes, evs)

SpecCal == InitCal /\ [][NextCal]_vars

(* elrs_loop alone, on the mappings a mapping file can hold *)

\* number of buttons of the controller the loop reads
LoopButtons == 8
LoopButtonIds == 0 .. (LoopButtons - 1)
LoopPressed == {[b \in LoopButtonIds |-> b \in S] : S \in SUBSET {5, 7}}

\* raw axes [1.0, 1.0, -1.0, 0.0]
ExampleRaw == [i \in AxisIds |-> IF i \in {0, 1} THEN Scale
                                 ELSE IF i = 2 THEN -Scale ELSE 0]
\* every value of the grid on one axis, the others at rest
LoopSamples ==
    {[i \in AxisIds |-> IF i = a THEN v ELSE 0] : a \in AxisIds, v \in (-Scale) .. Scale}
    \cup {ExampleRaw}

LoopIndexLists == {<<0, 1, 2, 3>>, <<2, 0, 3, 1>>, <<1, 1, 0, 3>>, <<0, 1, 2, 4>>}
LoopInvLists == {<<FALSE, TRUE, FALSE, FALSE>>, <<TRUE, FALSE, TRUE, TRUE>>}
LoopMappings ==
    {MakeMapping([k \in 1 .. CAL_CHANNELS |-> Binding(ix[k], inv[k])], bp[1], bp[2]) :
        ix \in LoopIndexLists, inv \in LoopInvLists, bp \in {<<5, 7>>, <<0, 5>>}}

InitLoop ==
    /\ pc = "returned"
    /\ force_calibration = FALSE
    /\ mapping \in LoopMappings
    /\ file = FileOf(JsonDump(mapping))
    /\ axes \in LoopSamples
    /\ buttons \in LoopPressed
    /\ queue = <<>>
    /\ Unbound

NextLoop ==
    \/ LoopSetup
    \/ LoopCycle(axes, buttons)
    \/ \E pressed \in LoopPressed : LoopCycle(ExampleRaw, pressed)

SpecLoop == InitLoop /\ [][NextLoop]_vars

(* elrs_loop while the control bound to channel 0 is swept over its range *)

SweepMappings ==
    {MakeMapping(<<Binding(0, inv), Binding(1, TRUE), Binding(2, FALSE),
                   Binding(3, FALSE)>>, 5, 7) : inv \in BOOLEAN}
\* axis 0 at any value of the grid from -1.0 to 1.0, the others at rest
SweepSamples == {[Rest EXCEPT ![0] = v] : v \in (-Scale) .. Scale}

InitSweep ==
    /\ pc = "returned"
    /\ force_calibration = FALSE
    /\ mapping \in SweepMappings
    /\ file = FileOf(JsonDump(mapping))
    /\ axes = Rest
    /\ buttons = [b \in LoopButtonIds |-> FALSE]
    /\ queue = <<>>
    /\ Unbound

NextSweep ==
    \/ LoopSetup
    \/ \E sample \in SweepSamples : LoopCycle(sample, buttons)

SpecSweep == InitSweep /\ [][NextSweep]_vars

(* The whole program: main, lines 185-186 *)

StoredBindings == <<Binding(0, FALSE), Binding(1, TRUE), Binding(2, FALSE),
                    Binding(3, FALSE)>>
StoredMapping == MakeMapping(StoredBindings, 1, 0)
\* a parseable mapping file with three of the four axis entries
ShortText == JsonDump(MakeMapping(SubSeq(StoredBindings, 1, 3), 1, 0))
\* a parseable mapping file without btn_b
NoBtnBText ==
    LET t == JsonDump(StoredMapping)
    IN  SubSeq(t, 1, Len(t) - 6) \o <<P("}"), P("}")>>
StoredFiles ==
    { NoFile,
      FileOf(JsonDump(StoredMapping)),
      FileOf(<<>>),
      FileOf(<<Junk>>),
      FileOf(Prefix(JsonDump(StoredMapping), 20)),
      FileOf(<<P("{"), P("}")>>),
      FileOf(ShortText),
      FileOf(NoBtnBText) }

\* what one pump finds while the whole program is run: one control pushed
\* to 0.9, or the first one pulled to -1.0
MainSamples ==
    {s \in Samples : \A i \in OffRest(s) : s[i] = (9 * Scale) \div 10 \/ (i = 0 /\ s[i] = -Scale)}
\* and one press, or nothing, per pump
MainBatches == {<<>>} \cup {<<Event("JOYBUTTONDOWN", b)>> : b \in ButtonIds}
\* the number of tokens of a dumped Mapping with CAL_CHANNELS bindings
DumpLen == Len(JsonDump(StoredMapping))
\* a write fails after k / WriteCuts of the text, or not at all
WriteCuts == 4
DumpCuts == {(k * DumpLen) \div WriteCuts : k \in 0 .. WriteCuts}

Init ==
    /\ pc = "main"
    /\ force_calibration \in BOOLEAN
    /\ file \in StoredFiles
    /\ axes = Rest
    /\ buttons = Released
    /\ queue = <<>>
    /\ mapping = NoMapping
    /\ Unbound

Next ==
    \/ \E read_ok \in BOOLEAN : LoadOrCalibrate(read_ok)
    \/ CalBegin
    \/ \E sample \in MainSamples : AxisPoll(sample, <<>>)
    \/ AxisReturn
    \/ \E evs \in MainBatches : ButtonPollA(axes, evs)
    \/ \E evs \in MainBatches : ButtonPollB(axes, evs)
    \/ \E open_ok \in BOOLEAN : SaveOpen(open_ok)
    \/ \E n \in DumpCuts : SaveDump(n)
    \/ LoopSetup
    \/ \E pressed \in [ButtonIds -> BOOLEAN] : LoopCycle(axes, pressed)

Spec == Init /\ [][Next]_vars

\* what one pump finds: one of the first three controls pushed to 0.9, or
\* the last one pulled to -1.0
RunSamples ==
    {[Rest EXCEPT ![i] = IF i = CAL_CHANNELS - 1 THEN -Scale ELSE (9 * Scale) \div 10] :
        i \in AxisIds}

\* and one press of the first or the second button, or nothing, per pump
RunBatches == {<<>>} \cup {<<Event("JOYBUTTONDOWN", b)>> : b \in 0 .. 1}

(* calibrate called again in the same process when it has returned *)

\* most calls of calibrate in a row
MaxCalls == 2

\* the caller has the Mapping that calibrate returned (line 123) and calls
\* calibrate again: whatever the first call left behind is still there
CalAgain ==
    /\ pc = "cal_ret"
    /\ cal_calls < MaxCalls
    /\ pc' = "calibrate"
    /\ UNCHANGED <<force_calibration, file, joy_vars, cal_vars, mapping,
                   cal_calls, loop_vars>>

InitTwice ==
    /\ pc = "calibrate"
    /\ force_calibration = TRUE
    /\ file = NoFile
    /\ axes = Rest
    /\ buttons = Released
    /\ queue = <<>>
    /\ mapping = NoMapping
    /\ Unbound

NextTwice ==
    \/ CalBegin
    \/ \E sample \in RunSamples : AxisPoll(sample, <<>>)
    \/ AxisReturn
    \/ \E evs \in RunBatches : ButtonPollA(axes, evs)
    \/ \E evs \in RunBatches : ButtonPollB(axes, evs)
    \/ CalAgain

SpecTwice == InitTwice /\ [][NextTwice]_vars

(* calibrate while the buttons are pressed and released at any time *)

InitPress ==
    /\ pc = "calibrate"
    /\ force_calibration = TRUE
    /\ file = NoFile
    /\ axes = Rest
    /\ buttons = Released
    /\ queue = <<>>
    /\ mapping = NoMapping
    /\ Unbound

NextPress ==
    \/ CalBegin
    \/ \E sample \in RunSamples, evs \in PressBatches : AxisPoll(sample, evs)
    \/ AxisReturn
    \/ \E evs \in Batches : ButtonPollA(axes, evs)
    \/ \E evs \in Batches : ButtonPollB(axes, evs)

SpecPress == InitPress /\ [][NextPress]_vars

(* calibrate with up to two controls held away from rest at a time *)

\* what one pump finds: at most two controls away from rest, pushed to
\* 0.9, or the first one pulled to -1.0
HoldSamples ==
    {s \in Held(2) : \A i \in OffRest(s) : \/ s[i] = (9 * Scale) \div 10
                                            \/ (i = 0 /\ s[i] = -Scale)}

InitHold ==
    /\ pc = "calibrate"
    /\ force_calibration = TRUE
    /\ file = NoFile
    /\ axes = Rest
    /\ buttons = Released
    /\ queue = <<>>
    /\ mapping = NoMapping
    /\ Unbound

NextHold ==
    \/ CalBegin
    \/ \E sample \in HoldSamples : AxisPoll(sample, <<>>)
    \/ AxisReturn
    \/ \E evs \in RunBatches : ButtonPollA(axes, evs)
    \/ \E evs \in RunBatches : ButtonPollB(axes, evs)

SpecHold == InitHold /\ [][NextHold]_vars

(* calibrate on a controller that reports one to four axes *)

\* joystick.get_numaxes() of the controllers tried
AxisCounts == 1 .. CAL_CHANNELS
\* what one pump finds on a controller with the axes `ids`: one control
\* pushed to 0.9 or pulled to -1.0, or all at rest
FewSamples(ids) ==
    {[i \in ids |-> IF i = a THEN v ELSE 0] :
        a \in ids, v \in {-Scale, 0, (9 * Scale) \div 10}}

InitFew ==
    /\ pc = "calibrate"
    /\ force_calibration = TRUE
    /\ file = NoFile
    /\ axes \in {[i \in 0 .. (n - 1) |-> 0] : n \in AxisCounts}
    /\ buttons = Released
    /\ queue = <<>>
    /\ mapping = NoMapping
    /\ Unbound

NextFew ==
    \/ CalBegin
    \/ \E sample \in FewSamples(DOMAIN axes) : AxisPoll(sample, <<>>)
    \/ AxisReturn
    \/ \E evs \in RunBatches : ButtonPollA(axes, evs)
    \/ \E evs \in RunBatches : ButtonPollB(axes, evs)

SpecFew == InitFew /\ [][NextFew]_vars

(* Several runs of the program, one after the other, on the same file *)

\* the process has ended (the exception of a failed save left main, or the
\* operator stopped the loop) and the program is started again, lines
\* 174-186: nothing but the mapping file outlives the process
Restart(force) ==
    /\ pc \in {"crashed", "loop"}
    /\ pc' = "main"
    /\ force_calibration' = force
    /\ axes' = Rest
    /\ buttons' = Released
    /\ queue' = <<>>
    /\ baseline' = <<>>
    /\ used_axes' = {}
    /\ axis_mapping' = <<>>
    /\ cfg' = NoCfg
    /\ taken_buttons' = {}
    /\ button_a' = None
    /\ button_b' = None
    /\ events' = <<>>
    /\ mapping' = NoMapping
    /\ axis_indices' = <<>>
    /\ inv_flags' = <<>>
    /\ channels' = <<>>
    /\ cal_calls' = 0
    /\ UNCHANGED file

InitRuns ==
    /\ pc = "main"
    /\ force_calibration \in BOOLEAN
    /\ file = NoFile
    /\ axes = Rest
    /\ buttons = Released
    /\ queue = <<>>
    /\ mapping = NoMapping
    /\ Unbound

NextRuns ==
    \/ \E read_ok \in BOOLEAN : LoadOrCalibrate(read_ok)
    \/ CalBegin
    \/ \E sample \in RunSamples : AxisPoll(sample, <<>>)
    \/ AxisReturn
    \/ \E evs \in RunBatches : ButtonPollA(axes, evs)
    \/ \E evs \in RunBatches : ButtonPollB(axes, evs)
    \/ \E open_ok \in BOOLEAN : SaveOpen(open_ok)
    \/ \E n \in 0 .. DumpLen : SaveDump(n)
    \/ LoopSetup
    \/ LoopCycle(axes, Released)
    \/ \E force \in BOOLEAN : Restart(force)

SpecRuns == InitRuns /\ [][NextRuns]_vars

----------------------------------------------------------------------------
(* Properties of the calibration, checked under SpecCal *)

\* the absolute difference of axis i between a sample and a baseline
AbsDelta(sample, base, i) ==
    IF sample[i] >= base[i] THEN sample[i] - base[i] ELSE base[i] - sample[i]
\* the difference is at least 0.6
AtThreshold(d) == 10 * d >= 6 * Scale
\* some axis outside `used` is displaced by the threshold or more
Qualifies(sample, base, used) ==
    \E i \in DOMAIN sample \ used : AtThreshold(AbsDelta(sample, base, i))

\* C1: the Mapping that calibrate returns has four axis bindings whose
\* index values are pairwise distinct, and btn_a differs from btn_b,
\* whatever samples and button events calibrate was fed.
C1_Distinct ==
    pc = "cal_ret" =>
        /\ Len(mapping.axes) = 4
        /\ \A i, j \in 1 .. 4 :
              i # j => mapping.axes[i].index # mapping.axes[j].index
        /\ mapping.buttons.btn_a # mapping.buttons.btn_b

\* calibrate has returned a Mapping whose channels were bound out of the
\* order of the axes, the first two by moves in the negative direction
C1_Witness ==
    /\ pc = "cal_ret"
    /\ mapping.axes[1].index = 3
    /\ mapping.axes[2].index = 0
    /\ mapping.axes[1].inverted
    /\ mapping.axes[2].inverted
    /\ mapping.buttons.btn_a = 1

\* C5: when wait_for_axis_movement returns, the returned index is an axis
\* not in used_axes, its absolute delta from the baseline in the sample
\* that triggered the return is at least the threshold, and no axis outside
\* used_axes has a larger absolute delta; baseline [0,0,0,0] with axis 2 at
\* 0.9 returns index 2, not inverted.
C5_LargestUnclaimed ==
    pc = "axis_ret" =>
        /\ cfg.index \in DOMAIN axes \ used_axes
        /\ AtThreshold(AbsDelta(axes, baseline, cfg.index))
        /\ \A j \in DOMAIN axes \ used_axes :
              AbsDelta(axes, baseline, j) <= AbsDelta(axes, baseline, cfg.index)
        /\ (baseline = Rest /\ axes = [Rest EXCEPT ![2] = (9 * Scale) \div 10])
              => cfg = [index |-> 2, inverted |-> FALSE]

\* a detection has returned the later of two unclaimed axes that were both
\* displaced past the threshold, because its displacement is the larger
C5_Witness ==
    /\ pc = "axis_ret"
    /\ \E j \in DOMAIN axes \ used_axes :
          /\ j < cfg.index
          /\ AtThreshold(AbsDelta(axes, baseline, j))
          /\ AbsDelta(axes, baseline, j) < AbsDelta(axes, baseline, cfg.index)

\* C6: when wait_for_axis_movement returns {index, inverted}, inverted is
\* true exactly when the value of axis index in the triggering sample is
\* below baseline[index].
C6_InvertedIffBelow ==
    pc = "axis_ret" => (cfg.inverted <=> axes[cfg.index] < baseline[cfg.index])

\* a detection has returned inverted for an axis that went back from a
\* positive baseline to rest
C6_Witness ==
    /\ pc = "axis_ret"
    /\ cfg.inverted
    /\ axes[cfg.index] = 0
    /\ baseline[cfg.index] > 0

\* C7: wait_for_axis_movement does not return on a sample in which every
\* axis outside used_axes is displaced by less than the threshold, and it
\* returns on the first sample in which one is displaced by the threshold
\* or more: while it waits, the last sample polled does not qualify, and
\* when it has returned, the last sample polled does.
C7_ReturnsIffQualifies ==
    /\ pc = "axis" => ~Qualifies(axes, baseline, used_axes)
    /\ pc = "axis_ret" => Qualifies(axes, baseline, used_axes)

\* the function still waits after a sample in which an unclaimed axis has
\* left its baseline by less than the threshold
C7_Witness ==
    /\ pc = "axis"
    /\ \E i \in DOMAIN axes \ used_axes :
          /\ AbsDelta(axes, baseline, i) > 0
          /\ ~AtThreshold(AbsDelta(axes, baseline, i))

\* C8: calibrate detects the axes for channels 0, 1, 2, 3 in that order,
\* then button A, then button B: no button detection runs before four
\* bindings are appended, each detection's result is appended behind the
\* earlier ones and nothing else changes the list, the first button found
\* is btn_a and the second btn_b, and the Mapping returned holds exactly
\* that list and those buttons.
C8_OrderInv ==
    /\ pc \in {"axis", "axis_ret"} =>
          /\ Len(axis_mapping) < 4
          /\ button_a = None /\ button_b = None
    /\ pc \in {"btn_a", "btn_b", "cal_ret"} => Len(axis_mapping) = 4
    /\ pc = "btn_a" => button_a = None /\ button_b = None
    /\ pc = "btn_b" => button_a # None /\ button_b = None
    /\ pc = "cal_ret" =>
          /\ mapping.axes = axis_mapping
          /\ DOMAIN mapping.buttons = {"btn_a", "btn_b"}
          /\ mapping.buttons.btn_a = button_a
          /\ mapping.buttons.btn_b = button_b
          /\ button_a # None /\ button_b # None
C8_OrderStep ==
    /\ axis_mapping' # axis_mapping =>
          \/ pc = "axis_ret" /\ axis_mapping' = Append(axis_mapping, cfg)
          \/ pc = "calibrate" /\ axis_mapping' = <<>>
    /\ pc = "axis_ret" => axis_mapping' = Append(axis_mapping, cfg)
    /\ button_a' # button_a => pc = "btn_a" /\ pc' = "btn_b"
    /\ button_b' # button_b => pc = "btn_b" /\ pc' = "cal_ret"
C8_FixedOrder == [](C8_OrderInv) /\ [][C8_OrderStep]_vars

\* calibrate has returned with the channels bound to axes 3, 2, 1, 0 and
\* button 1 found before button 0
C8_Witness ==
    /\ pc = "cal_ret"
    /\ \A k \in 1 .. 4 : mapping.axes[k].index = 4 - k
    /\ mapping.buttons = [btn_a |-> 1, btn_b |-> 0]

\* C16: between the detection for channel N and the one for channel N+1
\* calibrate takes a new snapshot of all axes as its baseline, which
\* differs from the baseline channel N was detected against, and claims the
\* index detected for channel N; while a detection waits the baseline stays
\* as it is, so the deltas for channel N+1 are measured against the new
\* snapshot only.
C16_Inv ==
    (pc = "axis" /\ Len(axis_mapping) >= 1) =>
        /\ axis_mapping[Len(axis_mapping)].index \in used_axes
        /\ DOMAIN baseline = DOMAIN axes
C16_Step ==
    /\ pc = "axis_ret" =>
          /\ baseline' = axes
          /\ baseline' # baseline
          /\ cfg.index \in used_axes'
    /\ pc = "axis" => baseline' = baseline
    /\ baseline' # baseline => pc \in {"calibrate", "axis_ret"}
C16_BaselineRecaptured == [](C16_Inv) /\ [][C16_Step]_vars

\* the detection for channel 2 waits with a baseline that holds the
\* displacement of the control just bound to channel 1, while the one
\* bound to channel 0 is back at rest
C16_Witness ==
    /\ pc = "axis"
    /\ Len(axis_mapping) = 2
    /\ baseline[axis_mapping[2].index] # 0
    /\ baseline[axis_mapping[1].index] = 0

----------------------------------------------------------------------------
(* Properties of the runtime loop, checked under SpecLoop *)

\* a frame has been passed to set_channels in the cycle that read the
\* current joystick state
FramePassed == pc = "loop" /\ channels # <<>>

\* the raw value of slot k in the current cycle, lines 152-154, as a
\* multiple of 1 / Scale
SlotRaw(k) ==
    IF mapping.axes[k + 1].inverted THEN -axes[mapping.axes[k + 1].index]
    ELSE axes[mapping.axes[k + 1].index]

Clamp(x, lo, hi) == IF x < lo THEN lo ELSE IF x > hi THEN hi ELSE x

\* round(a / b) for b > 0, a half going to the even neighbour
RoundRatio(a, b) ==
    IF 2 * (a % b) < b THEN a \div b
    ELSE IF 2 * (a % b) > b THEN (a \div b) + 1
    ELSE IF (a \div b) % 2 = 0 THEN a \div b ELSE (a \div b) + 1

\* a / b for b > 0 with the fraction dropped, toward zero
TruncRatio(a, b) == IF a >= 0 THEN a \div b ELSE -((-a) \div b)

\* C2 as stated: axis_to_channel(v) = clamp(round((v + 1.0) * 1024), 0, 2047)
\* for every slot value v of the grid.
C2_Rounds ==
    FramePassed =>
        \A k \in 0 .. 3 :
            channels[k] = Clamp(RoundRatio((SlotRaw(k) + Scale) * 1024, Scale), 0, 2047)

\* C2 as amended: axis_to_channel(v) = clamp(int((v + 1.0) * 1024), 0, 2047),
\* int() dropping the fraction (truncation toward zero, not rounding), for
\* every slot value v of the grid.
C2_Truncates ==
    FramePassed =>
        \A k \in 0 .. 3 :
            channels[k] = Clamp(TruncRatio((SlotRaw(k) + Scale) * 1024, Scale), 0, 2047)

\* a frame whose slot 0 comes from a value inside (-1, 1) whose scaled
\* fraction is at least one half, and was not rounded up
C2_Witness ==
    /\ FramePassed
    /\ Abs(SlotRaw(0)) < Scale
    /\ 2 * (((SlotRaw(0) + Scale) * 1024) % Scale) >= Scale
    /\ channels[0] = ((SlotRaw(0) + Scale) * 1024) \div Scale

\* C3: every frame passed to set_channels has exactly 16 entries, each an
\* integer in [0, 2047], and entries 6 to 15 equal 1024, for any Mapping
\* with 4 axis bindings and 2 button bindings and any raw input.
C3_FrameShape ==
    channels # <<>> =>
        /\ DOMAIN channels = 0 .. 15
        /\ \A k \in 0 .. 15 : channels[k] \in 0 .. 2047
        /\ \A k \in 6 .. 15 : channels[k] = 1024

\* a frame whose slot 0 was clamped: the bound axis is at -1.0 and the
\* binding is inverted, so that the raw value 1.0 scales to 2048
C3_Witness ==
    /\ FramePassed
    /\ mapping.axes[1].inverted
    /\ axes[mapping.axes[1].index] = -Scale
    /\ channels[0] = 2047

\* the Mapping and the input of the scenario of C4
ExampleMapping ==
    MakeMapping(<<Binding(0, FALSE), Binding(1, TRUE), Binding(2, FALSE),
                  Binding(3, FALSE)>>, 5, 7)
ExampleFrame ==
    [k \in 0 .. 15 |->
        IF k \in {0, 4} THEN 2047 ELSE IF k \in {1, 2, 5} THEN 0 ELSE 1024]

\* C4: in every cycle slot k, k in 0..3, is axis_to_channel of the raw
\* value of axis mapping.axes[k].index, negated exactly when
\* mapping.axes[k].inverted is true; slot 4 is 2047 if btn_a is pressed,
\* else 0, and slot 5 likewise for btn_b; the scenario of the claim yields
\* [2047, 0, 0, 1024, 2047, 0, 1024, ..., 1024].
C4_SlotsFollowMapping ==
    FramePassed =>
        /\ \A k \in 0 .. 3 : channels[k] = axis_to_channel(SlotRaw(k))
        /\ channels[4] = IF buttons[mapping.buttons.btn_a] THEN 2047 ELSE 0
        /\ channels[5] = IF buttons[mapping.buttons.btn_b] THEN 2047 ELSE 0
        /\ (/\ mapping = ExampleMapping
            /\ axes = ExampleRaw
            /\ buttons[5] /\ ~buttons[7]) => channels = ExampleFrame

\* the frame of the scenario has been passed
C4_Witness ==
    /\ FramePassed
    /\ mapping = ExampleMapping
    /\ axes = ExampleRaw
    /\ buttons[5] /\ ~buttons[7]
    /\ channels = ExampleFrame

----------------------------------------------------------------------------
(* Properties of load_or_calibrate, checked under Spec *)

\* a dict that holds the 4 {index, inverted} entries and btn_a and btn_b
WellFormed(m) ==
    /\ {"axes", "buttons"} \subseteq DOMAIN m
    /\ Len(m.axes) = CAL_CHANNELS
    /\ \A i \in 1 .. Len(m.axes) : {"index", "inverted"} \subseteq DOMAIN m.axes[i]
    /\ {"btn_a", "btn_b"} \subseteq DOMAIN m.buttons

\* C9: load_or_calibrate returns without calibrating only when
\* force_calibration is false and the stored file exists and loads, and
\* then it returns what was loaded and writes nothing; with
\* force_calibration true, no file, or a file that does not load it calls
\* calibrate, exactly once, and when it returns after that the file holds
\* the dump of the Mapping calibrate returned, which is what it returns.
C9_Inv ==
    /\ cal_calls <= 1
    /\ (pc = "returned" /\ cal_calls = 0) =>
          /\ ~force_calibration
          /\ file.exists
          /\ JsonLoad(file.text).ok
          /\ mapping = JsonLoad(file.text).val
    /\ (pc = "returned" /\ cal_calls = 1) =>
          /\ mapping = MakeMapping(axis_mapping, button_a, button_b)
          /\ file = FileOf(JsonDump(mapping))
C9_Step ==
    /\ pc = "main" =>
          /\ pc' \in {"returned", "calibrate"}
          /\ (force_calibration \/ ~file.exists \/ ~JsonLoad(file.text).ok)
                => pc' = "calibrate"
          /\ file' = file
          /\ cal_calls' = 0
    /\ file' # file => pc \in {"cal_ret", "dump"}
    /\ cal_calls' # cal_calls => pc = "calibrate"
    /\ pc' = "returned" => pc \in {"main", "dump"}
C9_LoadOrCalibrate == [](C9_Inv) /\ [][C9_Step]_vars

\* load_or_calibrate has returned a calibrated Mapping that it wrote over
\* a stored one, although force_calibration is false: the read had failed
C9_Witness ==
    /\ pc = "returned"
    /\ cal_calls = 1
    /\ ~force_calibration
    /\ mapping # StoredMapping
    /\ file = FileOf(JsonDump(mapping))

\* C10: load_or_calibrate never returns stored data that is no well-formed
\* Mapping (it calibrates instead), and the program does not crash on it.
C10_NoMalformedMapping ==
    /\ pc = "returned" => WellFormed(mapping)
    /\ (pc = "crashed" /\ cal_calls = 0) => WellFormed(mapping)

\* C11 as stated: once calibrate has produced a Mapping, load_or_calibrate
\* goes on to return it whether the write of the mapping file succeeds or
\* fails: every step of the save leads on toward the return.
C11_WriteFailureStillReturns ==
    [][(pc \in {"cal_ret", "dump"}) => (pc' \in {"dump", "returned"})]_vars

----------------------------------------------------------------------------
(* Properties of the mapping file over several runs, checked under SpecRuns *)

\* the text is shorter than the dump of a Mapping: a save that failed
\* after the file was emptied left it
HalfWritten(f) == f.exists /\ Len(f.text) < DumpLen

\* C12: a save that fails after the file was opened leaves a file that is
\* no complete dump, whatever number of tokens reached it (none, or any
\* prefix of the data), and load_or_calibrate never returns without
\* calibrating while the file is in that state: a later run with
\* force_calibration false calibrates.
C12_Inv ==
    (pc = "returned" /\ cal_calls = 0) => ~HalfWritten(file)
C12_Step ==
    /\ (pc = "cal_ret" /\ pc' = "dump") => HalfWritten(file')
    /\ (pc = "dump" /\ pc' = "crashed") => HalfWritten(file')
    /\ (pc = "main" /\ HalfWritten(file)) => pc' = "calibrate"
C12_HalfWrittenNeverLoaded == [](C12_Inv) /\ [][C12_Step]_vars

\* a run with force_calibration false found the file a failed save left
\* with all tokens but the last, and went on to calibrate
C12_Witness ==
    /\ pc = "calibrate"
    /\ ~force_calibration
    /\ file.exists
    /\ Len(file.text) = DumpLen - 1

\* C13: after load_or_calibrate calibrated and saved Mapping m, the file
\* reads back as a value equal to m in every field, and a run that returns
\* what it loaded returns a Mapping with four {index, inverted} entries and
\* btn_a and btn_b whose dump is the text of the file, that is, the Mapping
\* that was saved.
C13_RoundTrip ==
    /\ (pc \in {"returned", "loop"} /\ cal_calls = 1) =>
          /\ JsonLoad(file.text).ok
          /\ JsonLoad(file.text).val = mapping
    /\ (pc \in {"returned", "loop"} /\ cal_calls = 0) =>
          /\ WellFormed(mapping)
          /\ \A k \in 1 .. CAL_CHANNELS :
                /\ DOMAIN mapping.axes[k] = {"index", "inverted"}
                /\ mapping.axes[k].index \in AxisIds
                /\ mapping.axes[k].inverted \in BOOLEAN
          /\ DOMAIN mapping.buttons = {"btn_a", "btn_b"}
          /\ file.text = JsonDump(mapping)

\* a run has loaded, without calibrating, a Mapping of an earlier run whose
\* channel 0 is the inverted axis 3 and whose btn_a is button 1
C13_Witness ==
    /\ pc = "loop"
    /\ cal_calls = 0
    /\ mapping.axes[1] = Binding(3, TRUE)
    /\ mapping.axes[2] = Binding(1, FALSE)
    /\ mapping.buttons = [btn_a |-> 1, btn_b |-> 0]

----------------------------------------------------------------------------
(* Properties of a repeated calibration, checked under SpecTwice *)

\* the axis indices bound so far in the current call
BoundNow == {axis_mapping[k].index : k \in 1 .. Len(axis_mapping)}

\* C14: every call of calibrate, the second like the first, starts with no
\* axis and no button claimed: while it detects axes the claimed set holds
\* exactly the indices bound in this call, the button phase starts with no
\* button taken and button B is looked for with only this call's button A
\* taken, so that what the call before has bound can be bound again.
C14_Inv ==
    /\ pc \in {"axis", "axis_ret"} => used_axes = BoundNow
    /\ pc = "axis_ret" => cfg.index \notin BoundNow
    /\ pc = "btn_a" => taken_buttons = {}
    /\ pc = "btn_b" => taken_buttons = {button_a}
C14_Step ==
    pc = "calibrate" => (used_axes' = {} /\ axis_mapping' = <<>>)
C14_FreshClaims == [](C14_Inv) /\ [][C14_Step]_vars

\* the second call has bound the four axes and the button A that the
\* first call had bound, in the same order
C14_Witness ==
    /\ cal_calls = 2
    /\ pc = "btn_b"
    /\ mapping # NoMapping
    /\ axis_mapping = mapping.axes
    /\ button_a = mapping.buttons.btn_a

----------------------------------------------------------------------------
(* Properties of axis_to_channel, checked under SpecSweep *)

\* C15: for every raw value v of the grid in [-1, 1] the channel value of
\* v is in [0, 2047]; it is 0 for v = -1, 2047 for v = 1 and 1024 for
\* v = 0; and it is monotonically non-decreasing: of two cycles, the one
\* with the larger raw value has the channel value that is not smaller.
C15_Inv ==
    FramePassed =>
        /\ channels[0] \in 0 .. 2047
        /\ SlotRaw(0) = -Scale => channels[0] = 0
        /\ SlotRaw(0) = Scale => channels[0] = 2047
        /\ SlotRaw(0) = 0 => channels[0] = 1024
C15_Step ==
    (FramePassed /\ FramePassed' /\ SlotRaw(0) <= SlotRaw(0)')
        => channels[0] <= channels'[0]
C15_RangeMonotoneEndpoints == [](C15_Inv) /\ [][C15_Step]_vars

\* the frame of a cycle that read 1.0 through an inverted binding: the
\* raw value is -1.0 and slot 0 is 0
C15_Witness ==
    /\ FramePassed
    /\ mapping.axes[1].inverted
    /\ axes[0] = Scale
    /\ channels[0] = 0

----------------------------------------------------------------------------
(* Properties of the button detection, checked under SpecPress *)

\* a press event of a button outside `taken`
IsPress(e, taken) == e.type = "JOYBUTTONDOWN" /\ e.button \notin taken
\* the button of the first such event among the events retrieved
Accepts(evs, taken, b) ==
    \E i \in 1 .. Len(evs) :
        /\ IsPress(evs[i], taken)
        /\ evs[i].button = b
        /\ \A j \in 1 .. (i - 1) : ~IsPress(evs[j], taken)
\* button A's press comes first among the presses retrieved
AcceptedFirst(evs, a) ==
    \E j \in 1 .. Len(evs) :
        /\ evs[j] = Event("JOYBUTTONDOWN", a)
        /\ \A l \in 1 .. (j - 1) : evs[l].type # "JOYBUTTONDOWN"

\* C17: wait_for_button_press returns only the button of a JOYBUTTONDOWN
\* event, among the events it retrieved, whose button is not in
\* already_taken, the first such event; button B is never button A; and
\* while it blocks, the events it retrieved last hold no such press (for
\* button B: none but those dropped behind the press that became button A).
C17_Inv ==
    /\ pc = "btn_a" => \A i \in 1 .. Len(events) : ~IsPress(events[i], {})
    /\ pc = "btn_b" =>
          \/ \A i \in 1 .. Len(events) : ~IsPress(events[i], {button_a})
          \/ AcceptedFirst(events, button_a)
    /\ pc = "cal_ret" => button_b # button_a
C17_Step ==
    /\ (pc = "btn_a" /\ pc' = "btn_b") => Accepts(events', taken_buttons, button_a')
    /\ (pc = "btn_b" /\ pc' = "cal_ret") =>
          /\ taken_buttons = {button_a}
          /\ Accepts(events', taken_buttons, button_b')
    /\ button_a' # button_a => (pc = "btn_a" /\ pc' = "btn_b")
    /\ button_b' # button_b => (pc = "btn_b" /\ pc' = "cal_ret")
C17_OnlyUntakenPress == [](C17_Inv) /\ [][C17_Step]_vars

\* button B was found behind a repeated press of button A in the same
\* batch of events
C17_Witness ==
    /\ pc = "cal_ret"
    /\ events = <<Event("JOYBUTTONDOWN", button_a), Event("JOYBUTTONDOWN", button_b)>>

\* C18 as stated: button A is bound only to a press made after the axis
\* phase: the press that becomes button A is never one that was waiting in
\* the event queue, left there by the pumps of the axis detections, when
\* the button detection retrieved its events.
C18_OnlyPressAfterAxisPhase ==
    [][(pc = "btn_a" /\ pc' = "btn_b") => ~Accepts(queue, {}, button_a')]_vars

----------------------------------------------------------------------------
(* Properties of what a binding records, checked under SpecHold, where     *)
(* calibration starts with every control at rest                           *)

\* C19 as stated: at its detection the bound axis differs by the threshold
\* or more from the value it had when calibration started, in the
\* direction recorded by inverted.
C19_DisplacedFromStart ==
    pc = "axis_ret" =>
        /\ AtThreshold(AbsDelta(axes, Rest, cfg.index))
        /\ cfg.inverted <=> axes[cfg.index] < Rest[cfg.index]

\* C19 as amended: at its detection the bound axis differs by the
\* threshold or more from the value it has in the baseline captured last,
\* in the direction recorded by inverted.  That baseline holds the values
\* at the start of calibration for channel 0 only; for channel 1 it holds
\* the displacement that bound channel 0.  So an axis detected at its
\* starting value is one that was held displaced when the baseline was
\* re-captured, and its return is bound, inverted when the return goes
\* down.
C19_DisplacedFromBaseline ==
    /\ pc = "axis_ret" =>
          /\ AtThreshold(AbsDelta(axes, baseline, cfg.index))
          /\ cfg.inverted <=> axes[cfg.index] < baseline[cfg.index]
          /\ axes[cfg.index] = Rest[cfg.index] =>
                /\ AtThreshold(AbsDelta(baseline, Rest, cfg.index))
                /\ cfg.inverted <=> baseline[cfg.index] > Rest[cfg.index]
    /\ (pc \in {"axis", "axis_ret"} /\ Len(axis_mapping) = 0) => baseline = Rest
    /\ (pc \in {"axis", "axis_ret"} /\ Len(axis_mapping) = 1) =>
          AtThreshold(AbsDelta(baseline, Rest, axis_mapping[1].index))

\* with channel 0 bound, every control is back at rest and a detection
\* has returned an inverted binding for channel 1
C19_Witness ==
    /\ pc = "axis_ret"
    /\ Len(axis_mapping) = 1
    /\ axes = Rest
    /\ cfg.inverted

----------------------------------------------------------------------------
(* Properties of calibrate on controllers with few axes, checked under     *)
(* SpecFew                                                                 *)

\* joystick.get_numaxes()
NumAxes == Cardinality(DOMAIN axes)

\* C20: calibrate reaches the button phase and returns a Mapping only on a
\* controller with at least CAL_CHANNELS (4) axes; on one with fewer, no
\* more bindings are made than there are axes, and once every axis is
\* claimed the detection for the next channel goes on waiting whatever
\* sample the pump brings.
C20_Inv ==
    /\ pc \in {"btn_a", "btn_b", "cal_ret"} => NumAxes >= CAL_CHANNELS
    /\ Len(axis_mapping) <= NumAxes
    /\ (pc = "axis_ret" /\ NumAxes < CAL_CHANNELS) => used_axes # DOMAIN axes
C20_Step ==
    (pc = "axis" /\ NumAxes < CAL_CHANNELS /\ used_axes = DOMAIN axes)
        => (pc' = "axis" /\ axis_mapping' = axis_mapping)
C20_NeedsFourAxes == [](C20_Inv) /\ [][C20_Step]_vars

\* on a controller with three axes, all three claimed, the detection for
\* channel 3 has polled a sample with a control at -1.0 and still waits
C20_Witness ==
    /\ pc = "axis"
    /\ NumAxes = 3
    /\ used_axes = DOMAIN axes
    /\ \E i \in DOMAIN axes : axes[i] = -Scale /\ baseline[i] = 0

====
